---------------------------- MODULE Spec2Model ----------------------------
(***************************************************************************)
(* Model of src/ml_service/app.py: the FastAPI fraud-scoring service.      *)
(*                                                                         *)
(* Number representation.  TLC has only (32-bit) integers:                 *)
(*   request fields    [k, v]   k in "absent" (key not in the JSON body),  *)
(*                              "none" (JSON null / Python None), "num",   *)
(*                              "bool", "inf" (float +infinity), "nan";    *)
(*                              v is cents for amount and totalCost,       *)
(*                              hundredths for confidence, the integer     *)
(*                              itself for accountAgeDays / riskFlagCount  *)
(*                              and 0/1 for a bool;                        *)
(*   doubles        [k, s, m, e] the capability's outputs and the scores   *)
(*                              computed from them: k = "fin" is the       *)
(*                              IEEE-754 double s * m * 2^e, with s in     *)
(*                              {-1, 0, 1} and the 53-bit mantissa m as    *)
(*                              four limbs of 14 bits, lowest first; k is  *)
(*                              also "nan", "inf", "ninf", or, for a       *)
(*                              capability call, "raise" (the call raised) *)
(*                              and "unused" (the call was never made);    *)
(*   response fields   [k, v]   round(x, 4): k = "num" with v in units of  *)
(*                              10^-4, or "nan".                           *)
(* Double arithmetic is computed exactly and rounded to nearest-even as    *)
(* the hardware does; only np.exp is tabulated.                            *)
(***************************************************************************)
EXTENDS Integers, Sequences, FiniteSets, TLC

VARIABLES
    files,      \* the two pickle files: each "error" (open or pickle.load
                \* raises), "none" (unpickles to None) or "object"
    phase,      \* "imported" | "serving" | "failed": lifespan of the process
    model,      \* global `model`  (line 46): "None" or "loaded"
    scaler,     \* global `scaler` (line 47): "None" or "loaded"
    loads,      \* how many times load_model has run
    served,     \* how many /predict requests have been dispatched to the app
    req,        \* JSON body of the request being answered (NoBody when idle)
    cap,        \* what the loaded capability returned for this request
    resp,       \* the outcome of the request (status 0 when idle)
    calls,      \* capability functions invoked for this request, in order
    features    \* the vector handed to scaler.transform (<<>> if never built)

vars == <<files, phase, model, scaler, loads, served, req, cap, resp, calls, features>>

---------------------------------------------------------------------------
(* Bounds of the model. *)

MaxRequests == 1

MaxRiskFlagCount == 3

(* Program constants. *)

\* 5000 in cents: `transaction.amount > 5000`
HighAmount == 500000

\* `transaction.riskFlagCount > 2`
RiskFlagThreshold == 2

\* round(x, 4): the factor 10^4
Round4Factor == 10^4

\* f"{score:.2f}": the factor 10^2
Format2Factor == 10^2

---------------------------------------------------------------------------
(* Values *)

None == [k |-> "none", v |-> 0]

Absent == [k |-> "absent", v |-> 0]

Inf == [k |-> "inf", v |-> 0]

NaN == [k |-> "nan", v |-> 0]

Num(n) == [k |-> "num", v |-> n]

Bool(b) == [k |-> "bool", v |-> IF b THEN 1 ELSE 0]

\* the finite double s * m * 2^e
Dbl(s, m, e) == [k |-> "fin", s |-> s, m |-> m, e |-> e]

DNaN == [k |-> "nan", s |-> 0, m |-> << >>, e |-> 0]

DInf == [k |-> "inf", s |-> 0, m |-> << >>, e |-> 0]

DNegInf == [k |-> "ninf", s |-> 0, m |-> << >>, e |-> 0]

Raises == [k |-> "raise", s |-> 0, m |-> << >>, e |-> 0]

Unused == [k |-> "unused", s |-> 0, m |-> << >>, e |-> 0]

\* 0.0
Zero == Dbl(0, <<0, 0, 0, 0>>, 0)

\* 1.0
One == Dbl(1, <<0, 0, 0, 1024>>, -52)

\* 0.5: `is_anomaly = anomaly_score > 0.5`, `abs(anomaly_score - 0.5)`
Threshold == Dbl(1, <<0, 0, 0, 1024>>, -53)

\* -x
Neg(x) ==
    IF x.k = "fin" THEN Dbl(-x.s, x.m, x.e)
    ELSE IF x.k = "inf" THEN DNegInf
    ELSE IF x.k = "ninf" THEN DInf
    ELSE x

---------------------------------------------------------------------------
(* Natural numbers of any size: sequences of limbs in base 2^14, lowest     *)
(* limb first.  They carry the exact intermediate results of the double     *)
(* operations.                                                              *)

LimbBits == 14

Base == 2^LimbBits

Max(a, b) == IF a >= b THEN a ELSE b

Limb(a, i) == IF i >= 1 /\ i <= Len(a) THEN a[i] ELSE 0

RECURSIVE Carried(_, _)
\* the limbs of the number whose columns (of magnitude below 2^30) are cols
Carried(cols, c) ==
    IF cols = << >>
    THEN IF c = 0 THEN << >> ELSE <<c % Base>> \o Carried(<< >>, c \div Base)
    ELSE <<(Head(cols) + c) % Base>> \o Carried(Tail(cols), (Head(cols) + c) \div Base)

BAdd(a, b) == Carried([i \in 1..Max(Len(a), Len(b)) |-> Limb(a, i) + Limb(b, i)], 0)

\* a - b for a >= b
BSub(a, b) == Carried([i \in 1..Max(Len(a), Len(b)) |-> Limb(a, i) - Limb(b, i)], 0)

\* a * k for 0 <= k < 2^16
BMulSmall(a, k) == Carried([i \in 1..Len(a) |-> a[i] * k], 0)

RECURSIVE CmpFrom(_, _, _)
CmpFrom(a, b, i) ==
    IF i = 0 THEN 0
    ELSE IF Limb(a, i) > Limb(b, i) THEN 1
    ELSE IF Limb(a, i) < Limb(b, i) THEN -1
    ELSE CmpFrom(a, b, i - 1)

\* -1, 0 or 1 as a < b, a = b, a > b
BCmp(a, b) == CmpFrom(a, b, Max(Len(a), Len(b)))

RECURSIVE TopLimb(_, _)
\* the index of the highest limb that is not 0
TopLimb(a, i) == IF i = 0 THEN 0 ELSE IF a[i] # 0 THEN i ELSE TopLimb(a, i - 1)

SmallBits(v) ==
    CHOOSE k \in 0..LimbBits : (k = 0 /\ v = 0) \/ (k > 0 /\ 2^(k - 1) <= v /\ v < 2^k)

\* the number of significant bits
BitLen(a) ==
    LET t == TopLimb(a, Len(a))
    IN IF t = 0 THEN 0 ELSE (t - 1) * LimbBits + SmallBits(a[t])

\* a * 2^k
BShl(a, k) ==
    LET q == k \div LimbBits
        s == k % LimbBits
    IN Carried([i \in 1..(Len(a) + q) |-> Limb(a, i - q) * 2^s], 0)

\* floor(a / 2^k)
BShr(a, k) ==
    LET q == k \div LimbBits
        s == k % LimbBits
        n == Len(a) - q
    IN IF n <= 0 THEN << >>
       ELSE [i \in 1..n |->
               (Limb(a, i + q) \div 2^s) + (Limb(a, i + q + 1) % 2^s) * 2^(LimbBits - s)]

BPow2(k) == BShl(<<1>>, k)

BOdd(a) == Limb(a, 1) % 2 = 1

\* q or q + 1 as c is the order of the remainder and half a unit: the nearer
\* one, the even one in a tie
NearestBy(q, c) == IF c > 0 \/ (c = 0 /\ BOdd(q)) THEN BAdd(q, <<1>>) ELSE q

\* for q = floor(a / 2^k): a / 2^k rounded to the nearest integer, ties to even
Nearest(q, a, k) == NearestBy(q, BCmp(BShl(BSub(a, BShl(q, k)), 1), BPow2(k)))

\* a / 2^k rounded to the nearest integer, ties to even
RoundShr(a, k) == IF k <= 0 THEN BShl(a, -k) ELSE Nearest(BShr(a, k), a, k)

\* a number below 2^28 as an integer
BToInt(a) == Limb(a, 1) + Limb(a, 2) * Base

Min(a, b) == IF a <= b THEN a ELSE b

\* the four low limbs
First4(a) == [i \in 1..4 |-> Limb(a, i)]

(* Long division by den, a number of four limbs whose top limb is at least  *)
(* Base / 2.  A step brings the next limb of the dividend down to the       *)
(* remainder rem < den, R = rem * Base + limb, and appends to the quotient  *)
(* the largest digit k with k * den <= R.  The estimate from the two top    *)
(* limbs of R and the top limb of den is never below k and at most 2 above. *)

Estimate(R, den) == Min(Base - 1, (Limb(R, 5) * Base + Limb(R, 4)) \div den[4])

\* <<k, k * den>> for the digits k the estimate allows
Multiples(den, est) == {<<k, BMulSmall(den, k)>> : k \in Max(0, est - 2)..est}

Largest(fits) == CHOOSE c \in fits : \A o \in fits : o[1] <= c[1]

Digit(R, den) == Largest({c \in Multiples(den, Estimate(R, den)) : BCmp(c[2], R) <= 0})

Reduce(q, R, c) == [q |-> <<c[1]>> \o q, rem |-> First4(BSub(R, c[2]))]

DivStep(p, limb, den) == Reduce(p.q, <<limb>> \o p.rem, Digit(<<limb>> \o p.rem, den))

RECURSIVE LongDiv(_, _, _)
\* The quotient and the remainder of the limbs i.. of num divided by den: the
\* step for limb i applied to p, the result for the limbs above it.
LongDiv(num, den, i) ==
    IF i > Len(num) THEN [q |-> << >>, rem |-> <<0, 0, 0, 0>>]
    ELSE CHOOSE r \in {DivStep(p, num[i], den) : p \in {LongDiv(num, den, i + 1)}} : TRUE

---------------------------------------------------------------------------
(* IEEE-754 double arithmetic, binary64, round to nearest, ties to even.    *)

Pack(s, m, e) == Dbl(s, First4(m), e)

\* r * 2^e for r of 53 bits, or of 54 bits (2^53, when the rounding carried)
Renormalized(s, r, e) ==
    IF BitLen(r) > 53 THEN Pack(s, BShr(r, 1), e + 1) ELSE Pack(s, r, e)

\* the double nearest to a * 2^e for a of n bits
Rounded(s, a, e, n) ==
    IF n = 0 THEN Zero ELSE Renormalized(s, RoundShr(a, n - 53), e + (n - 53))

\* the double nearest to a * 2^e, for a result in the normal range
ToDouble(s, a, e) == Rounded(s, a, e, BitLen(a))

\* -1, 0, 1: the order of the magnitudes of two finite doubles
MagCmp(a, b) ==
    IF a.s = 0 \/ b.s = 0 THEN (IF a.s = b.s THEN 0 ELSE IF a.s = 0 THEN -1 ELSE 1)
    ELSE IF a.e # b.e THEN (IF a.e < b.e THEN -1 ELSE 1)
    ELSE BCmp(a.m, b.m)

\* -1, 0, 1: the order of two finite doubles
DCmp(a, b) ==
    IF a.s # b.s THEN (IF a.s < b.s THEN -1 ELSE 1)
    ELSE IF a.s >= 0 THEN MagCmp(a, b) ELSE MagCmp(b, a)

DLeq(a, b) == DCmp(a, b) <= 0

\* 1 + x for x >= 0: exact when x is 0; x when x >= 2^54 and 1 when x < 2^-54,
\* where 1 resp. x is below half a unit in the last place
Add1(x) ==
    IF x.k # "fin" THEN x
    ELSE IF x.s = 0 THEN One
    ELSE IF x.e >= 2 THEN x
    ELSE IF x.e + 53 <= -54 THEN One
    ELSE ToDouble(1, BAdd(BShl(x.m, Max(x.e, 0)), BPow2(Max(-x.e, 0))), Min(x.e, 0))

\* 2 * q, plus 1 when the division left a remainder
Sticky(r) == BAdd(BShl(r.q, 1), IF BitLen(r.rem) = 0 THEN << >> ELSE <<1>>)

\* 1 / d for 1 <= d < 2^1022, d = m * 2^e with 2^52 <= m < 2^53: 2^108 / m is
\* 2^111 / (8 * m), whose integer part has 55 or 56 bits; one more bit records
\* a remainder, so that the rounding to 53 bits sees the exact quotient
Recip(d) ==
    IF d.k = "nan" THEN DNaN
    ELSE IF d.k = "inf" THEN Zero
    ELSE ToDouble(1, Sticky(LongDiv(BPow2(111), BMulSmall(d.m, 8), 1)), -108 - d.e - 1)

\* |a - b|
BAbsDiff(a, b) == IF BCmp(a, b) >= 0 THEN BSub(a, b) ELSE BSub(b, a)

\* abs(x - y) for finite x, y >= 0
AbsDiff(x, y) ==
    ToDouble(1, BAbsDiff(BShl(x.m, x.e - Min(x.e, y.e)), BShl(y.m, y.e - Min(x.e, y.e))),
             Min(x.e, y.e))

\* x * 2
Twice(x) == IF x.s = 0 THEN x ELSE Dbl(x.s, x.m, x.e + 1)

\* x * k for a finite x >= 0 and an integer 0 <= k < 2^16
TimesSmall(x, k) == ToDouble(x.s, BMulSmall(x.m, k), x.e)

\* np.rint(y) as an integer, for 0 <= y < 2^28
Rint(y) == BToInt(RoundShr(y.m, -y.e))

---------------------------------------------------------------------------
(* Request bodies: the JSON objects a client may POST to /predict. *)

AmountInputs == {Absent, Num(-100), Num(500000), Num(123456789), Inf, NaN}

AccountAgeInputs == {None, Num(30)}

ConfidenceInputs == {Num(90), Num(150), Inf}

TotalCostInputs == {Absent, Inf, Num(-100)}

NewAccountInputs == {None, Bool(TRUE)}

FlagInputs == {Absent, Bool(TRUE)}

RiskFlagInputs == {Absent, None, Num(-1)} \cup {Num(n) : n \in RiskFlagThreshold..MaxRiskFlagCount}

Bodies ==
    [amount : AmountInputs, accountAgeDays : AccountAgeInputs,
     confidence : ConfidenceInputs, totalCost : TotalCostInputs,
     newAccount : NewAccountInputs, internationalTransfer : FlagInputs,
     unusualHour : FlagInputs, riskFlagCount : RiskFlagInputs]

NoBody ==
    [amount |-> Absent, accountAgeDays |-> Absent, confidence |-> Absent,
     totalCost |-> Absent, newAccount |-> Absent, internationalTransfer |-> Absent,
     unusualHour |-> Absent, riskFlagCount |-> Absent]

---------------------------------------------------------------------------
(* class TransactionRequest: pydantic validation and defaults. *)

\* Field(..., ge=0): required, a float; +infinity satisfies inf >= 0, nan does not.
AmountOk(x) == x.k = "inf" \/ (x.k = "num" /\ x.v >= 0)

\* Optional[int] = Field(None): absent, null or an integer.
AccountAgeOk(x) == x.k \in {"absent", "none", "num"}

\* Optional[float] = Field(0.0, ge=0): absent and null are accepted unchecked,
\* +infinity satisfies inf >= 0, nan does not.
OptionalGe0(x) == x.k \in {"absent", "none", "inf"} \/ (x.k = "num" /\ x.v >= 0)

\* Optional[int] = Field(0, ge=0): absent, null or an integer >= 0.
OptionalIntGe0(x) == x.k \in {"absent", "none"} \/ (x.k = "num" /\ x.v >= 0)

\* Optional[float] = Field(None, ge=0, le=1), v in hundredths.
ConfidenceOk(x) == x.k \in {"absent", "none"} \/ (x.k = "num" /\ x.v >= 0 /\ x.v <= 100)

Validates(body) ==
    /\ AmountOk(body.amount)
    /\ AccountAgeOk(body.accountAgeDays)
    /\ ConfidenceOk(body.confidence)
    /\ OptionalGe0(body.totalCost)
    /\ OptionalIntGe0(body.riskFlagCount)

NonFinite(x) == x.k \in {"inf", "nan"}

\* The 422 body lists every validation error with the input it rejected: the
\* value of the field for a field that fails its constraint, the whole body
\* for the missing required field.  Its JSON rendering (allow_nan=False)
\* raises when such an input holds a nan or an infinity.
RejectsNonFinite(body) ==
    \/ ~AmountOk(body.amount) /\ NonFinite(body.amount)
    \/ ~AccountAgeOk(body.accountAgeDays) /\ NonFinite(body.accountAgeDays)
    \/ ~ConfidenceOk(body.confidence) /\ NonFinite(body.confidence)
    \/ ~OptionalGe0(body.totalCost) /\ NonFinite(body.totalCost)
    \/ ~OptionalIntGe0(body.riskFlagCount) /\ NonFinite(body.riskFlagCount)
    \/ /\ body.amount.k = "absent"
       /\ \E f \in DOMAIN body : NonFinite(body[f])

\* An absent key takes the field's default; an explicit null stays None.
Default(x, d) == IF x.k = "absent" THEN d ELSE x

TransactionRequest(body) ==
    [amount                |-> body.amount,
     accountAgeDays        |-> Default(body.accountAgeDays, None),
     confidence            |-> Default(body.confidence, None),
     totalCost             |-> Default(body.totalCost, Num(0)),
     newAccount            |-> Default(body.newAccount, Bool(FALSE)),
     internationalTransfer |-> Default(body.internationalTransfer, Bool(FALSE)),
     unusualHour           |-> Default(body.unusualHour, Bool(FALSE)),
     riskFlagCount         |-> Default(body.riskFlagCount, Num(0))]

\* Python truthiness of a field value: None, 0, 0.0 and False are falsy.
Truthy(x) == x.k \in {"inf", "nan"} \/ (x.k \in {"num", "bool"} /\ x.v # 0)

\* `x or 0`
OrZero(x) == IF Truthy(x) THEN x ELSE Num(0)

\* `1 if x else 0`
OneIf(x) == IF Truthy(x) THEN Num(1) ELSE Num(0)

\* Step 1 of predict_fraud: the 8-element vector, in training order.
Features(tx) ==
    << tx.amount, OrZero(tx.accountAgeDays), OrZero(tx.confidence),
       OrZero(tx.totalCost), OneIf(tx.newAccount), OneIf(tx.internationalTransfer),
       OneIf(tx.unusualHour), OrZero(tx.riskFlagCount) >>

---------------------------------------------------------------------------
(* The scoring capability: the unpickled scaler and model.  What each call *)
(* returns is not decided by this repository, so it is an input.           *)

\* model.predict: -1 (anomaly) or 1 (normal)
Labels == {Dbl(-1, <<0, 0, 0, 1024>>, -52), Dbl(1, <<0, 0, 0, 1024>>, -52)}

\* model.score_samples: -0.6
SampleScores == {Dbl(-1, <<13107, 3276, 13107, 1228>>, -53)}

\* a second value model.score_samples may return for the same input: 0.4
OtherSampleScores == {Dbl(1, <<6554, 9830, 6553, 1638>>, -54)}

\* model.decision_function
FiniteDecisions ==
    {
      Dbl(-1, <<0, 0, 0, 1280>>, -47),   \* -40
      Dbl(-1, <<9830, 6553, 9830, 1177>>, -51),   \* -2.3
      Dbl(-1, <<14522, 10473, 4771, 1258>>, -63),   \* -0.000600000018
      Dbl(-1, <<7529, 13652, 4356, 2013>>, -66),   \* -0.00012
      Dbl(-1, <<5271, 6427, 12116, 1475>>, -109),   \* -1e-17
      Dbl(0, <<0, 0, 0, 0>>, 0),   \* 0
      Dbl(1, <<7529, 13652, 4356, 2013>>, -66),   \* 0.00012
      Dbl(1, <<0, 0, 0, 1536>>, -53),   \* 0.75
      Dbl(1, <<9788, 7164, 9934, 1061>>, -49),   \* 8.293799608846818
      Dbl(1, <<15191, 12129, 80, 1127>>, -49),   \* 8.804726
      Dbl(1, <<0, 0, 0, 1280>>, -49),   \* 10
      Dbl(1, <<3465, 4822, 5997, 1356>>, -49),   \* 10.59660973278257
      Dbl(1, <<0, 0, 0, 1420>>, -43)   \* 710
    }

NonFiniteDecisions == {DNaN, DInf, DNegInf}

DecisionScores == FiniteDecisions \cup NonFiniteDecisions

CapRecord(t, p, s, d) == [transform |-> t, predict |-> p, score_samples |-> s, decision_function |-> d]

NoCap == CapRecord(Unused, Unused, Unused, Unused)

Ok == Zero

\* Every way the four calls of one request can go; a call after one that
\* raised is never made.
CapOutcomes ==
    {CapRecord(Raises, Unused, Unused, Unused), CapRecord(Ok, Raises, Unused, Unused)}
    \cup {CapRecord(Ok, l, Raises, Unused) : l \in Labels}
    \cup {CapRecord(Ok, c[1], c[2], c[3]) :
            c \in Labels \X SampleScores \X (DecisionScores \cup {Raises})}

---------------------------------------------------------------------------
(* Score normalisation: lines 194-224. *)

\* <<x, np.exp(x)>> for the doubles the model hands to np.exp: the decision
\* scores, the sample scores and their negations.  np.exp(710) overflows to
\* +inf (a RuntimeWarning, not an exception).
ExpTable ==
    {
      \* np.exp(-40.0) = 4.248354255291589e-18
      <<Dbl(-1, <<0, 0, 0, 1280>>, -47),
        Dbl(1, <<6692, 9836, 14628, 1253>>, -110)>>,
      \* np.exp(40.0) = 2.3538526683702e+17
      <<Dbl(1, <<0, 0, 0, 1280>>, -47),
        Dbl(1, <<13035, 9701, 8403, 1672>>, 5)>>,
      \* np.exp(-2.3) = 0.10025884372280375
      <<Dbl(-1, <<9830, 6553, 9830, 1177>>, -51),
        Dbl(1, <<6524, 7090, 10500, 1642>>, -56)>>,
      \* np.exp(2.3) = 9.974182454814718
      <<Dbl(1, <<9830, 6553, 9830, 1177>>, -51),
        Dbl(1, <<2125, 11198, 11392, 1276>>, -49)>>,
      \* np.exp(-0.000600000018) = 0.9994001799460162
      <<Dbl(-1, <<14522, 10473, 4771, 1258>>, -63),
        Dbl(1, <<586, 6206, 12641, 2046>>, -53)>>,
      \* np.exp(0.000600000018) = 1.0006001800540163
      <<Dbl(1, <<14522, 10473, 4771, 1258>>, -63),
        Dbl(1, <<615, 5741, 10069, 1024>>, -52)>>,
      \* np.exp(-0.00012) = 0.999880007199712
      <<Dbl(-1, <<7529, 13652, 4356, 2013>>, -66),
        Dbl(1, <<6832, 11628, 12357, 2047>>, -53)>>,
      \* np.exp(0.00012) = 1.000120007200288
      <<Dbl(1, <<7529, 13652, 4356, 2013>>, -66),
        Dbl(1, <<547, 6336, 2013, 1024>>, -52)>>,
      \* np.exp(-1e-17) = 1.0
      <<Dbl(-1, <<5271, 6427, 12116, 1475>>, -109),
        Dbl(1, <<0, 0, 0, 1024>>, -52)>>,
      \* np.exp(1e-17) = 1.0
      <<Dbl(1, <<5271, 6427, 12116, 1475>>, -109),
        Dbl(1, <<0, 0, 0, 1024>>, -52)>>,
      \* np.exp(0.0) = 1.0
      <<Dbl(0, <<0, 0, 0, 0>>, 0),
        Dbl(1, <<0, 0, 0, 1024>>, -52)>>,
      \* np.exp(0.75) = 2.117000016612675
      <<Dbl(1, <<0, 0, 0, 1536>>, -53),
        Dbl(1, <<7416, 4511, 14811, 1083>>, -51)>>,
      \* np.exp(-0.75) = 0.4723665527410147
      <<Dbl(-1, <<0, 0, 0, 1536>>, -53),
        Dbl(1, <<3454, 12223, 13326, 1934>>, -54)>>,
      \* np.exp(8.293799608846818) = 3998.9999999999995
      <<Dbl(1, <<9788, 7164, 9934, 1061>>, -49),
        Dbl(1, <<16383, 16383, 8191, 1999>>, -41)>>,
      \* np.exp(-8.293799608846818) = 0.00025006251562890725
      <<Dbl(-1, <<9788, 7164, 9934, 1061>>, -49),
        Dbl(1, <<6863, 3691, 13733, 1048>>, -64)>>,
      \* np.exp(8.804726) = 6665.671648475193
      <<Dbl(1, <<15191, 12129, 80, 1127>>, -49),
        Dbl(1, <<2909, 1182, 6847, 1666>>, -40)>>,
      \* np.exp(-8.804726) = 0.0001500223912512635
      <<Dbl(-1, <<15191, 12129, 80, 1127>>, -49),
        Dbl(1, <<3449, 7388, 7848, 1258>>, -65)>>,
      \* np.exp(10.0) = 22026.465794806718
      <<Dbl(1, <<0, 0, 0, 1280>>, -49),
        Dbl(1, <<1376, 15956, 10716, 1376>>, -38)>>,
      \* np.exp(-10.0) = 4.5399929762484854e-05
      <<Dbl(-1, <<0, 0, 0, 1280>>, -49),
        Dbl(1, <<15515, 5521, 6043, 1523>>, -67)>>,
      \* np.exp(10.59660973278257) = 39998.99999996006
      <<Dbl(1, <<3465, 4822, 5997, 1356>>, -49),
        Dbl(1, <<10895, 16383, 15871, 1249>>, -37)>>,
      \* np.exp(-10.59660973278257) = 2.5000625015650354e-05
      <<Dbl(-1, <<3465, 4822, 5997, 1356>>, -49),
        Dbl(1, <<815, 14850, 12509, 1677>>, -68)>>,
      \* np.exp(710.0) = inf
      <<Dbl(1, <<0, 0, 0, 1420>>, -43),
        DInf>>,
      \* np.exp(-710.0) = 4.47628622567513e-309
      <<Dbl(-1, <<0, 0, 0, 1420>>, -43),
        Dbl(1, <<7704, 9494, 382, 1648>>, -1077)>>,
      \* np.exp(-0.6) = 0.5488116360940264
      <<Dbl(-1, <<13107, 3276, 13107, 1228>>, -53),
        Dbl(1, <<1251, 11864, 15830, 1123>>, -53)>>,
      \* np.exp(0.6) = 1.8221188003905089
      <<Dbl(1, <<13107, 3276, 13107, 1228>>, -53),
        Dbl(1, <<10735, 11334, 13920, 1865>>, -52)>>,
      \* np.exp(0.4) = 1.4918246976412703
      <<Dbl(1, <<6554, 9830, 6553, 1638>>, -54),
        Dbl(1, <<16352, 3054, 10297, 1527>>, -52)>>,
      \* np.exp(-0.4) = 0.6703200460356393
      <<Dbl(-1, <<6554, 9830, 6553, 1638>>, -54),
        Dbl(1, <<12526, 6601, 13360, 1372>>, -53)>>
    }

np_exp(x) ==
    CASE x.k = "nan"  -> DNaN
      [] x.k = "inf"  -> DInf
      [] x.k = "ninf" -> Zero
      [] OTHER        -> (CHOOSE t \in ExpTable : t[1] = x)[2]

\* 1 / (1 + np.exp(x))
Logistic(x) == Recip(Add1(np_exp(x)))

\* the sign slip 1 / (1 + np.exp(-decision_score))
normalized_score_negated(d) == Logistic(Neg(d))

\* normalized_score = 1 / (1 + np.exp(decision_score))
normalized_score(d) == Logistic(d)

\* the boundary slip `anomaly_score >= 0.5`
is_anomaly_ge(score) == score.k = "fin" /\ DCmp(score, Threshold) >= 0

\* the inverted comparison `anomaly_score < 0.5`
is_anomaly_lt(score) == score.k = "fin" /\ DCmp(score, Threshold) < 0

\* is_anomaly = anomaly_score > 0.5  (nan > 0.5 is False)
is_anomaly(score) == score.k = "fin" /\ DCmp(score, Threshold) > 0

\* confidence = abs(anomaly_score - 0.5) * 2
confidence_of(score) ==
    IF score.k = "nan" THEN DNaN ELSE Twice(AbsDiff(score, Threshold))

\* round(x, 4) of a numpy.float64 in [0, 1]: rint(x * 10^4) / 10^4, in units of 10^-4
Round4(x) == IF x.k = "nan" THEN NaN ELSE Num(Rint(TimesSmall(x, Round4Factor)))

---------------------------------------------------------------------------
(* String formatting. *)

Pad2(n) == IF n < 10 THEN "0" \o ToString(n) ELSE ToString(n)

Pad3(n) == IF n < 10 THEN "00" \o ToString(n) ELSE IF n < 100 THEN "0" \o ToString(n) ELSE ToString(n)

RECURSIVE Grouped(_)
\* the ',' option of the format spec: thousands separators
Grouped(n) == IF n < 1000 THEN ToString(n) ELSE Grouped(n \div 1000) \o "," \o Pad3(n % 1000)

\* f"{transaction.amount:,.2f}" of a validated amount (cents, or +inf)
FormatAmount(a) ==
    IF a.k = "inf" THEN "inf" ELSE Grouped(a.v \div 100) \o "." \o Pad2(a.v % 100)

\* n hundredths with two decimals
Fixed2(n) == ToString(n \div 100) \o "." \o Pad2(n % 100)

\* f"{score:.2f}": the exact value of the double, rounded half-even to
\* hundredths
FormatScore(score) ==
    IF score.k = "nan" THEN "nan"
    ELSE Fixed2(BToInt(RoundShr(BMulSmall(score.m, Format2Factor), -score.e)))

RECURSIVE Join(_, _)
\* sep.join(parts)
Join(parts, sep) ==
    IF Len(parts) = 0 THEN ""
    ELSE IF Len(parts) = 1 THEN parts[1]
    ELSE parts[1] \o sep \o Join(Tail(parts), sep)

---------------------------------------------------------------------------
(* generate_explanation: lines 232-260.  The result is [raised, text]:      *)
(* `None > 2` is a TypeError, which the function does not catch.           *)

\* transaction.amount > 5000
HighAmountFires(tx) == tx.amount.k = "inf" \/ tx.amount.v > HighAmount

\* the list after each `if ...: risk_factors.append(...)`, in source order
risk_factors(tx) ==
    LET f0 == << >>
        f1 == IF HighAmountFires(tx)
              THEN Append(f0, "high amount ($" \o FormatAmount(tx.amount) \o ")") ELSE f0
        f2 == IF Truthy(tx.newAccount) THEN Append(f1, "new account") ELSE f1
        f3 == IF Truthy(tx.internationalTransfer) THEN Append(f2, "international transfer") ELSE f2
        f4 == IF Truthy(tx.unusualHour) THEN Append(f3, "unusual hour") ELSE f3
        f5 == IF tx.riskFlagCount.v > RiskFlagThreshold
              THEN Append(f4, "multiple risk flags (" \o ToString(tx.riskFlagCount.v) \o ")") ELSE f4
    IN f5

TypeErrorText == "'>' not supported between instances of 'NoneType' and 'int'"

generate_explanation(tx, score, anomalous) ==
    IF tx.riskFlagCount.k = "none"
    THEN [raised |-> TRUE, text |-> TypeErrorText]
    ELSE LET rf == risk_factors(tx)
             sc == FormatScore(score)
         IN [raised |-> FALSE,
             text |->
               IF anomalous
               THEN IF Len(rf) > 0
                    THEN "Anomaly detected (score: " \o sc \o "). Risk factors: " \o Join(rf, ", ")
                    ELSE "Anomaly detected (score: " \o sc \o "). Transaction pattern deviates significantly from normal behavior."
               ELSE "Normal transaction (score: " \o sc \o "). No significant anomalies detected."]

---------------------------------------------------------------------------
(* predict_fraud: lines 148-229.  predict_fraud gives what the function     *)
(* returns or raises: status 200 stands for a returned                      *)
(* FraudPredictionResponse (pydantic accepts nan in a float field), the     *)
(* other statuses for the HTTPException raised.  post_predict is the route: *)
(* validation before the function, JSON rendering after it.                 *)

Response(status, score, anomalous, conf, text, detail) ==
    [status |-> status, anomalyScore |-> score, isAnomaly |-> anomalous,
     confidence |-> conf, explanation |-> text, detail |-> detail]

NoResp == Response(0, None, FALSE, None, "", "")

\* raise HTTPException(status_code=..., detail=...), and FastAPI's 422
Error(status, detail) == Response(status, None, FALSE, None, "", detail)

\* except Exception as e: HTTPException(500, f"Prediction failed: {str(e)}")
Failed(message) == Error(500, "Prediction failed: " \o message)

CapabilityError == "<error raised by the capability>"

HandlerResult(r, cs, f) == [resp |-> r, calls |-> cs, features |-> f]

\* the guard without its second disjunct: `if model is None`
NotReady_ModelOnly(m, s) == m = "None"

\* if model is None or scaler is None
NotReady(m, s) == m = "None" \/ s = "None"

\* max(a, b) and min(a, b) of two finite doubles
\* a < b as Python compares floats: False whenever either side is nan
DLt(a, b) ==
    IF a.k = "nan" \/ b.k = "nan" THEN FALSE
    ELSE IF a.k = "inf" \/ b.k = "ninf" THEN FALSE
    ELSE IF a.k = "ninf" \/ b.k = "inf" THEN TRUE
    ELSE DCmp(a, b) < 0

\* max(a, b): b when b > a, else a
DMax(a, b) == IF DLt(a, b) THEN b ELSE a

\* min(a, b): b when b < a, else a
DMin(a, b) == IF DLt(b, a) THEN b ELSE a

\* Lines 194-201: the score derived from the label and score_samples; line 210
\* overwrites it.
\*   prediction == -1: max(0.5, min(1.0, 1 / (1 + np.exp(raw_score))))
\*   otherwise:        max(0.0, min(0.5, 1 / (1 + np.exp(-raw_score))))
label_score(prediction, raw_score) ==
    IF prediction = Neg(One)
    THEN DMax(Threshold, DMin(One, normalized_score(raw_score)))
    ELSE DMax(Zero, DMin(Threshold, normalized_score_negated(raw_score)))

CallOrder == <<"scaler.transform", "model.predict", "model.score_samples", "model.decision_function">>

predict_fraud(m, s, tx, c) ==
    IF NotReady(m, s) THEN HandlerResult(Error(503, "Model not loaded"), << >>, << >>)
    ELSE
    LET f == Features(tx) IN
    IF c.transform.k = "raise" THEN HandlerResult(Failed(CapabilityError), SubSeq(CallOrder, 1, 1), f)
    ELSE IF c.predict.k = "raise" THEN HandlerResult(Failed(CapabilityError), SubSeq(CallOrder, 1, 2), f)
    ELSE IF c.score_samples.k = "raise" THEN HandlerResult(Failed(CapabilityError), SubSeq(CallOrder, 1, 3), f)
    ELSE IF c.decision_function.k = "raise" THEN HandlerResult(Failed(CapabilityError), CallOrder, f)
    ELSE
    LET score_201     == label_score(c.predict, c.score_samples)
        anomaly_score == normalized_score(c.decision_function)
        anomalous     == is_anomaly(anomaly_score)
        explanation   == generate_explanation(tx, anomaly_score, anomalous)
        confidence    == confidence_of(anomaly_score)
    IN IF explanation.raised
       THEN HandlerResult(Failed(explanation.text), CallOrder, f)
       ELSE HandlerResult(
              Response(200, Round4(anomaly_score), anomalous, Round4(confidence),
                       explanation.text, ""),
              CallOrder, f)

\* response_model=FraudPredictionResponse: the returned object is rendered as
\* JSON with allow_nan=False; a nan field raises ValueError outside the
\* function's try block and the client gets 500 Internal Server Error.
Rendered(out) ==
    IF out.resp.status = 200
       /\ (out.resp.anomalyScore.k = "nan" \/ out.resp.confidence.k = "nan")
    THEN HandlerResult(Error(500, "Internal Server Error"), out.calls, out.features)
    ELSE out

\* POST /predict: FastAPI binds and validates the body as a TransactionRequest
\* before it calls predict_fraud; a body that fails is answered 422, or 500
\* when the 422 body cannot be rendered.
post_predict(m, s, body, c) ==
    IF ~Validates(body)
    THEN IF RejectsNonFinite(body)
         THEN HandlerResult(Error(500, "Internal Server Error"), << >>, << >>)
         ELSE HandlerResult(Error(422, "Unprocessable Entity"), << >>, << >>)
    ELSE Rendered(predict_fraud(m, s, TransactionRequest(body), c))

---------------------------------------------------------------------------
(* load_model: lines 60-89.  The model file is read first, the scaler file *)
(* second; any exception is printed and re-raised.  A file that unpickles  *)
(* to None raises nothing and leaves the global None.                      *)

FileStates == {"error", "none", "object"}

\* load_model with the two `raise` statements left out
load_model_swallow(modelFile, scalerFile) ==
    [model  |-> IF modelFile = "object" THEN "loaded" ELSE "None",
     scaler |-> IF modelFile # "error" /\ scalerFile = "object" THEN "loaded" ELSE "None",
     raised |-> FALSE]

load_model(modelFile, scalerFile) ==
    [model  |-> IF modelFile = "object" THEN "loaded" ELSE "None",
     scaler |-> IF modelFile # "error" /\ scalerFile = "object" THEN "loaded" ELSE "None",
     raised |-> modelFile = "error" \/ scalerFile = "error"]

---------------------------------------------------------------------------
(* The state machine. *)

Init ==
    /\ files \in [model : FileStates, scaler : FileStates]
    /\ phase = "imported"
    /\ model = "None"
    /\ scaler = "None"
    /\ loads = 0
    /\ served = 0
    /\ req = NoBody
    /\ cap = NoCap
    /\ resp = NoResp
    /\ calls = << >>
    /\ features = << >>

Idle == resp.status = 0

\* The startup event: load_model runs; if it raises, the ASGI lifespan
\* startup fails and uvicorn.run (line 267) exits without serving.
Startup ==
    /\ phase = "imported"
    /\ Idle
    /\ LET r == load_model(files.model, files.scaler)
       IN /\ model' = r.model
          /\ scaler' = r.scaler
          /\ phase' = IF r.raised THEN "failed" ELSE "serving"
    /\ loads' = loads + 1
    /\ UNCHANGED <<files, served, req, cap, resp, calls, features>>

\* The capability is consulted only by a request that reaches line 169.
CapsFor(body) ==
    IF Validates(body) /\ ~NotReady(model, scaler) THEN CapOutcomes ELSE {NoCap}

Dispatch(body, c) ==
    \E out \in {post_predict(model, scaler, body, c)} :
       /\ req' = body
       /\ cap' = c
       /\ resp' = out.resp
       /\ calls' = out.calls
       /\ features' = out.features
       /\ served' = served + 1
       /\ UNCHANGED <<files, phase, model, scaler, loads>>

\* A request served by the process that `python app.py` starts.
Predict ==
    /\ phase = "serving"
    /\ Idle
    /\ served < MaxRequests
    /\ \E body \in Bodies : \E c \in CapsFor(body) : Dispatch(body, c)

\* The response is sent; nothing of the request is retained.
Complete ==
    /\ ~Idle
    /\ req' = NoBody
    /\ cap' = NoCap
    /\ resp' = NoResp
    /\ calls' = << >>
    /\ features' = << >>
    /\ UNCHANGED <<files, phase, model, scaler, loads, served>>

Next == Startup \/ Predict \/ Complete

Spec == Init /\ [][Next]_vars

---------------------------------------------------------------------------
(* Helpers of the properties. *)

\* the decision score is below 0
DecNegative(d) == d.k = "ninf" \/ (d.k = "fin" /\ d.s < 0)

\* every capability call of the request returned a value
Scored == cap.decision_function.k \in {"fin", "nan", "inf", "ninf"}

tx == TransactionRequest(req)

---------------------------------------------------------------------------
(* C1 *)

\* C1 (as claimed): whenever model or scaler is None, every /predict request
\* is answered 503 and no capability function is invoked.
C1_Original ==
    (~Idle /\ (model = "None" \/ scaler = "None")) => (resp.status = 503 /\ calls = << >>)

\* C1 (amended): whenever model or scaler is None, no capability function is
\* invoked and no feature vector is built; a request whose body passes schema
\* validation is answered 503; one whose body fails it is answered by the
\* validation layer: 500 when a nan or an infinity is the value of a field that
\* fails its constraint or is anywhere in a body that lacks amount, else 422.
C1_NotReadyRejects ==
    (~Idle /\ (model = "None" \/ scaler = "None")) =>
        /\ calls = << >>
        /\ features = << >>
        /\ Validates(req) => resp.status = 503
        /\ ~Validates(req) => resp.status \in {422, 500}
        /\ (~Validates(req) /\ resp.status = 500) <=>
              \/ req.amount = NaN
              \/ req.confidence = Inf
              \/ req.amount = Absent /\ (req.totalCost = Inf \/ req.confidence = Inf)

\* Only the model was loaded, and a valid request was answered 503.
C1_Witness ==
    /\ phase = "serving" /\ model = "loaded" /\ scaler = "None"
    /\ Validates(req) /\ resp.status = 503 /\ calls = << >>

---------------------------------------------------------------------------
(* C2 *)

\* C2 (as claimed): in a successful response isAnomaly is the unrounded score
\* > 0.5, which is True exactly when the raw decision score is below 0; a raw
\* score of 0 gives 0.5 and False.
C2_Original ==
    (resp.status = 200 /\ cap.decision_function.k = "fin") =>
        /\ resp.isAnomaly = is_anomaly(normalized_score(cap.decision_function))
        /\ resp.isAnomaly <=> DecNegative(cap.decision_function)
        /\ cap.decision_function = Zero => (resp.anomalyScore = Num(5000) /\ ~resp.isAnomaly)

\* C2 (amended): in a successful response isAnomaly is True exactly when the
\* unrounded double 1/(1+exp(r)) is strictly greater than 0.5; it is True only
\* for r below 0, never for r >= 0; r = 0 gives anomalyScore 0.5 and False, and
\* so does a negative r so small that the double result is exactly 0.5
\* (r = -1e-17); the surfaced 4-decimal value does not enter the decision
\* (r = -0.00012: anomalyScore 0.5 and True).
C2_DecisionOnUnrounded ==
    resp.status = 200 =>
        LET d == cap.decision_function
            s == normalized_score(d)
        IN /\ resp.isAnomaly <=> (s.k = "fin" /\ DCmp(s, Threshold) > 0)
           /\ resp.isAnomaly => DecNegative(d)
           /\ d = Zero => (resp.anomalyScore = Num(5000) /\ ~resp.isAnomaly)
           /\ d = Dbl(-1, <<5271, 6427, 12116, 1475>>, -109) =>
                  (s = Threshold /\ resp.anomalyScore = Num(5000) /\ ~resp.isAnomaly)
           /\ d = Dbl(-1, <<7529, 13652, 4356, 2013>>, -66) =>
                  (resp.anomalyScore = Num(5000) /\ resp.isAnomaly)

\* A raw score of exactly 0 was answered with anomalyScore 0.5, isAnomaly False.
C2_Witness ==
    /\ resp.status = 200 /\ cap.decision_function = Zero
    /\ resp.anomalyScore = Num(5000) /\ ~resp.isAnomaly

---------------------------------------------------------------------------
(* C3 *)

\* C3: load_model runs once, before any request; if reading the model file or
\* the scaler file raises (the scaler also after the model was loaded) no
\* /predict request is ever accepted; no request reaches scaling or scoring
\* unless both files gave an object and both globals were set beforehand.
C3_FailFast ==
    /\ loads <= 1
    /\ (served > 0 \/ ~Idle) => (loads = 1 /\ phase = "serving")
    /\ (files.model = "error" \/ files.scaler = "error") => (served = 0 /\ Idle)
    /\ phase = "failed" => (served = 0 /\ Idle)
    /\ calls # << >> =>
           /\ model = "loaded" /\ scaler = "loaded"
           /\ files.model = "object" /\ files.scaler = "object"

\* load_model ran and failed on the scaler after the model was loaded.
C3_Witness ==
    /\ loads = 1 /\ phase = "failed" /\ files.scaler = "error"
    /\ model = "loaded" /\ scaler = "None" /\ served = 0

---------------------------------------------------------------------------
(* C4 *)

\* C4 (as claimed): a non-finite decision score (NaN, +inf, -inf) is rejected
\* with an invalid-input error, and no successful response carries a NaN
\* anomalyScore or confidence.  (Stated for the transactions whose
\* riskFlagCount is not None, which fail otherwise: see C10.)
C4_Original ==
    /\ (~Idle /\ cap.decision_function.k \in {"nan", "inf", "ninf"}
          /\ tx.riskFlagCount.k # "none") =>
           resp.status \in {400, 422}
    /\ resp.status = 200 => (resp.anomalyScore.k # "nan" /\ resp.confidence.k # "nan")

---------------------------------------------------------------------------
(* C5 *)

\* negative amount, confidence outside [0,1], negative riskFlagCount, or a
\* non-finite number
OutOfDomain(body) ==
    \/ NonFinite(body.amount) \/ NonFinite(body.confidence) \/ NonFinite(body.totalCost)
    \/ (body.amount.k = "num" /\ body.amount.v < 0)
    \/ (body.confidence.k = "num" /\ (body.confidence.v < 0 \/ body.confidence.v > 100))
    \/ (body.riskFlagCount.k = "num" /\ body.riskFlagCount.v < 0)

\* C5 (as claimed): a request with malformed or out-of-domain feature values
\* is rejected as a client-input error before scaler.transform or any scoring
\* function is invoked; it never ends in a 500 and never succeeds.  (Stated
\* for the requests whose riskFlagCount is not null: see C10.)
C5_Original ==
    (~Idle /\ OutOfDomain(req) /\ req.riskFlagCount.k # "none") =>
        (resp.status \in {400, 422} /\ calls = << >>)

---------------------------------------------------------------------------
(* C6 *)

\* the five indicators in the fixed scan order, an absent or null field
\* counting as its neutral default
Indicators(t) ==
    << [fires  |-> t.amount.k = "inf" \/ t.amount.v > HighAmount,
        clause |-> "high amount ($" \o FormatAmount(t.amount) \o ")"],
       [fires  |-> t.newAccount = Bool(TRUE), clause |-> "new account"],
       [fires  |-> t.internationalTransfer = Bool(TRUE), clause |-> "international transfer"],
       [fires  |-> t.unusualHour = Bool(TRUE), clause |-> "unusual hour"],
       [fires  |-> t.riskFlagCount.k = "num" /\ t.riskFlagCount.v > RiskFlagThreshold,
        clause |-> "multiple risk flags (" \o ToString(t.riskFlagCount.v) \o ")"] >>

Fires(i) == i.fires

ReferenceClauses(t) ==
    LET sel == SelectSeq(Indicators(t), Fires)
    IN [i \in 1..Len(sel) |-> sel[i].clause]

ReferenceText(t, score, anomalous) ==
    LET list == ReferenceClauses(t)
    IN IF anomalous /\ Len(list) > 0
       THEN "Anomaly detected (score: " \o FormatScore(score) \o "). Risk factors: "
            \o Join(list, ", ")
       ELSE IF anomalous
       THEN "Anomaly detected (score: " \o FormatScore(score)
            \o "). Transaction pattern deviates significantly from normal behavior."
       ELSE "Normal transaction (score: " \o FormatScore(score)
            \o "). No significant anomalies detected."

\* 1/(1+exp(0.75)), 1/(1+exp(-2.3)) and 0.505
ExplanationScores ==
    {Dbl(1, <<14376, 742, 1377, 1314>>, -54),
     Dbl(1, <<6443, 13123, 6228, 1861>>, -53),
     Dbl(1, <<7209, 2621, 3932, 1034>>, -53)}

\* C6 (as claimed): for every input generate_explanation returns exactly the
\* reference text: the fired indicators in the fixed order joined with ", "
\* in the template that is_anomaly selects.
C6_Original ==
    (~Idle /\ Validates(req)) =>
        \A anomalous \in BOOLEAN : \A score \in ExplanationScores :
            LET g == generate_explanation(tx, score, anomalous)
            IN ~g.raised /\ g.text = ReferenceText(tx, score, anomalous)

\* The same statement for the transactions whose riskFlagCount is not None.
C6_ExceptNullRiskFlagCount ==
    (~Idle /\ Validates(req) /\ tx.riskFlagCount.k # "none") =>
        \A anomalous \in BOOLEAN : \A score \in ExplanationScores :
            LET g == generate_explanation(tx, score, anomalous)
            IN ~g.raised /\ g.text = ReferenceText(tx, score, anomalous)

---------------------------------------------------------------------------
(* C7 *)

\* <<r, 1/(1+exp(r))>> for every r of ExpTable
FiniteScores == {<<t[1], normalized_score(t[1])>> : t \in ExpTable}

\* C7: for every finite raw decision score r the anomaly score 1/(1+exp(r))
\* lies in [0,1] and is non-increasing in r; a large-magnitude r saturates to
\* 0 or 1 and the normalisation does not raise: the request succeeds with
\* the rounded score and confidence in [0,1], unless generate_explanation
\* fails afterwards on a None riskFlagCount (C10); r = +10 surfaces
\* anomalyScore 0.0000 with isAnomaly False.  The surfaced values are the ones
\* numpy's round gives: anomalyScore 0.0002 for r = 8.293799608846818 (the
\* unrounded double is 0.00025), 0.0001 for r = 8.804726 (the double below
\* 0.00015), and confidence 1.0 for r = 10.59660973278257 (the confidence
\* double is 0.99995).
C7_Normalizer ==
    (~Idle /\ cap.decision_function.k = "fin") =>
        LET d == cap.decision_function
            s == normalized_score(d)
        IN /\ s.k = "fin" /\ DLeq(Zero, s) /\ DLeq(s, One)
           /\ \A p \in FiniteScores : DLeq(d, p[1]) => DLeq(p[2], s)
           /\ resp.status = 200 \/ (resp.status = 500 /\ tx.riskFlagCount.k = "none")
           /\ resp.status = 200 =>
                  /\ resp.anomalyScore.k = "num"
                  /\ 0 <= resp.anomalyScore.v /\ resp.anomalyScore.v <= 10^4
                  /\ resp.anomalyScore = Round4(s)
                  /\ resp.confidence.k = "num"
                  /\ 0 <= resp.confidence.v /\ resp.confidence.v <= 10^4
           /\ (d = Dbl(1, <<0, 0, 0, 1280>>, -49) /\ resp.status = 200) =>
                  (resp.anomalyScore = Num(0) /\ ~resp.isAnomaly)
           /\ (d = Dbl(-1, <<0, 0, 0, 1280>>, -47) /\ resp.status = 200) =>
                  (s = One /\ resp.anomalyScore = Num(10^4) /\ resp.isAnomaly)
           /\ (d = Dbl(1, <<0, 0, 0, 1420>>, -43) /\ resp.status = 200) =>
                  (s = Zero /\ resp.anomalyScore = Num(0) /\ ~resp.isAnomaly)
           /\ (d = Dbl(1, <<9788, 7164, 9934, 1061>>, -49) /\ resp.status = 200) =>
                  (s = Dbl(1, <<10748, 3014, 9437, 1048>>, -64)
                   /\ resp.anomalyScore = Num(2) /\ resp.confidence = Num(9995))
           /\ (d = Dbl(1, <<15191, 12129, 80, 1127>>, -49) /\ resp.status = 200) =>
                  (resp.anomalyScore = Num(1) /\ resp.confidence = Num(9997))
           /\ (d = Dbl(1, <<3465, 4822, 5997, 1356>>, -49) /\ resp.status = 200) =>
                  (resp.anomalyScore = Num(0) /\ resp.confidence = Num(10^4))

\* r = 710, where np.exp overflows to +inf, was answered 200 with score 0.
C7_Witness ==
    /\ resp.status = 200 /\ cap.decision_function = Dbl(1, <<0, 0, 0, 1420>>, -43)
    /\ resp.anomalyScore = Num(0) /\ ~resp.isAnomaly /\ resp.confidence = Num(10^4)

---------------------------------------------------------------------------
(* C8 *)

\* C8 (as claimed): in a successful response isAnomaly is True exactly when the
\* returned, rounded anomalyScore is greater than 0.5; none carries isAnomaly
\* True together with anomalyScore 0.5.
C8_Original ==
    resp.status = 200 =>
        /\ resp.isAnomaly <=> (resp.anomalyScore.k = "num" /\ resp.anomalyScore.v > 5000)
        /\ ~(resp.isAnomaly /\ resp.anomalyScore = Num(5000))

\* C8 (amended): in a successful response a returned anomalyScore greater than
\* 0.5 implies isAnomaly True, and isAnomaly True implies a returned
\* anomalyScore of at least 0.5: the two can differ only at a returned 0.5,
\* which an unrounded score between 0.5 and 0.50005 yields with isAnomaly True
\* (r = -0.00012).  The returned value is the one numpy's round gives: 0.5002
\* for the unrounded double 0.50015 (r = -0.000600000018).
C8_RoundedConsistent ==
    resp.status = 200 =>
        /\ (resp.anomalyScore.k = "num" /\ resp.anomalyScore.v > 5000) => resp.isAnomaly
        /\ resp.isAnomaly => (resp.anomalyScore.k = "num" /\ resp.anomalyScore.v >= 5000)
        /\ cap.decision_function = Dbl(-1, <<14522, 10473, 4771, 1258>>, -63) =>
               (normalized_score(cap.decision_function) = Dbl(1, <<1363, 2700, 5033, 1024>>, -53)
                /\ resp.anomalyScore = Num(5002) /\ resp.isAnomaly)
        /\ cap.decision_function = Dbl(-1, <<7529, 13652, 4356, 2013>>, -66) =>
               (resp.anomalyScore = Num(5000) /\ resp.isAnomaly)

\* isAnomaly True was returned together with anomalyScore 0.5.
C8_Witness ==
    /\ resp.status = 200 /\ cap.decision_function = Dbl(-1, <<7529, 13652, 4356, 2013>>, -66)
    /\ resp.isAnomaly /\ resp.anomalyScore = Num(5000)

---------------------------------------------------------------------------
(* C9 *)

\* C9 (as claimed): with the same transaction and the same decision_function
\* value, the response does not depend on what model.predict and
\* model.score_samples return, nor on whether computing them fails.
C9_Original ==
    (~Idle /\ Scored) =>
        \A label \in Labels \cup {Raises} :
        \A sample \in SampleScores \cup OtherSampleScores \cup {Raises} :
            LET other == post_predict(model, scaler, req,
                             CapRecord(cap.transform, label, sample, cap.decision_function)).resp
            IN /\ other.status = resp.status
               /\ other.anomalyScore = resp.anomalyScore
               /\ other.isAnomaly = resp.isAnomaly
               /\ other.confidence = resp.confidence
               /\ other.explanation = resp.explanation

\* The same statement for the runs in which model.predict and
\* model.score_samples both return.
C9_WhenBothReturn ==
    (~Idle /\ Scored) =>
        \A label \in Labels : \A sample \in SampleScores \cup OtherSampleScores :
            post_predict(model, scaler, req,
                         CapRecord(cap.transform, label, sample, cap.decision_function)).resp
              = resp

---------------------------------------------------------------------------
(* C10 *)

\* C10 (as claimed): for every request the schema accepts, with optional
\* fields absent or null, the absent value is handed on as its neutral default
\* and generate_explanation returns a string: the request never ends in a 500
\* caused by the explanation step.
C10_Original ==
    (~Idle /\ Validates(req) /\ Scored) =>
        /\ ~generate_explanation(tx, normalized_score(cap.decision_function), resp.isAnomaly).raised
        /\ resp # Failed(TypeErrorText)
        /\ \A i \in 1..Len(features) : features[i].k \in {"num", "inf"}

=============================================================================
